---- MODULE Spec2Model ----
(***************************************************************************)
(* ClearText front-end (src/app.js, src/config.js): the analyze request    *)
(* path (Actions.handleAnalyze, API.analyzeText, API.parseResponse,        *)
(* Render.renderResults) and the health poller (ServerStatus), as a state  *)
(* machine of the browser's event loop.  Each action is one task of the    *)
(* event loop: an event handler or a timer callback run up to its next     *)
(* await, or the continuation of an await together with the promise        *)
(* reactions it triggers.                                                  *)
(*                                                                         *)
(* Texts are sequences of characters; scores are in thousandths (0..1000   *)
(* stands for 0.0..1.0).  The Date of parseResponse is not modelled, nor   *)
(* State.lastInputText, which is written and never read.                   *)
(***************************************************************************)
EXTENDS Integers, Sequences, FiniteSets, TLC

(***************************************************************************)
(* Bounds                                                                  *)
(***************************************************************************)
\* longest word the user types
MaxWordLen == 2
\* number of analyses the user starts in one run
MaxTriggers == 1

(***************************************************************************)
(* Configuration and program constants                                     *)
(***************************************************************************)
\* CONFIG.MAX_CHARACTERS (5000), scaled to the bound on the words so that a
\* word of max+1 characters can be typed
MAX_CHARACTERS == MaxWordLen - 1
\* CONFIG.REQUEST_TIMEOUT_MS
TIMEOUT_MS == 40000
\* delay of coldStartToastTimer
SLOW_RESPONSE_MS == 5000
POLL_INTERVAL_ONLINE == 30000
POLL_INTERVAL_OFFLINE == 10000
CHECK_TIMEOUT == 8000

(***************************************************************************)
(* Texts and String.prototype.trim                                         *)
(***************************************************************************)
Word(n) == [i \in 1..n |-> "a"]

\* what the user types: nothing, a blank, a word, or a word of the greatest
\* length allowed between blanks
Texts ==
    {<<>>, <<" ">>, <<" ">> \o Word(MAX_CHARACTERS) \o <<" ", " ">>}
    \cup {Word(n) : n \in 1..MaxWordLen}

RECURSIVE TrimStart(_)
TrimStart(s) == IF s # <<>> /\ Head(s) = " " THEN TrimStart(Tail(s)) ELSE s

RECURSIVE TrimEnd(_)
TrimEnd(s) ==
    IF s # <<>> /\ s[Len(s)] = " " THEN TrimEnd(SubSeq(s, 1, Len(s) - 1)) ELSE s

Trim(s) == TrimEnd(TrimStart(s))

(***************************************************************************)
(* Toasts: what Toast.show is called with                                  *)
(***************************************************************************)
Toast(message, type, duration) ==
    [message |-> message, type |-> type, duration |-> duration]

ToastOffline ==
    Toast("No internet connection - Results may be unavailable", "warning", 6000)
ToastRestored == Toast("Connection restored", "success", 3000)
ToastServerOnline == Toast("Server is online and ready.", "success", 3000)
ToastServerWaking ==
    Toast("Please wait - the server is starting up. This can take up to 30 seconds.",
          "warning", 20000)
ToastServerDown == Toast("Server appears to be offline. Retrying...", "error", 5000)
ToastEnterText == Toast("Please enter some text before analyzing.", "warning", 4000)
ToastColdStart ==
    Toast("Please wait - the server is starting up. This can take up to 30 seconds.",
          "warning", 25000)
ToastSlow == Toast("Taking longer than usual - please wait...", "info", 20000)

(***************************************************************************)
(* Errors thrown by API.analyzeText.  kind names the throw statement (or,  *)
(* for an HTTP error, the branch that chose the message); name and message *)
(* are the fields of the JavaScript Error.                                 *)
(***************************************************************************)
Err(kind, name, message) == [kind |-> kind, name |-> name, message |-> message]

NoError == Err("none", "", "")

ErrEmptyInput == Err("EmptyInput", "Error", "Please enter some text to analyze.")
ErrInputTooLong ==
    Err("InputTooLong", "Error",
        "Text too long. Maximum " \o ToString(MAX_CHARACTERS) \o " characters.")
ErrNoConnectivity ==
    Err("NoConnectivity", "Error",
        "No internet connection. Please check your network and try again.")
ErrRequestTimeout ==
    Err("RequestTimeout", "Error",
        "Request timed out. The server may be waking up - please try again in a moment.")
ErrNetworkError ==
    Err("NetworkError", "Error",
        "Network error. Could not reach the analysis server. Check your connection.")
ErrMalformedResponse ==
    Err("MalformedResponse", "Error", "Unexpected response from moderation server.")
\* what response.json() rejects with when the body is not JSON
ErrSyntax == Err("raw", "SyntaxError", "Unexpected token in JSON")
\* what reading a property of null throws
ErrType == Err("raw", "TypeError", "Cannot read properties of null")


(***************************************************************************)
(* HTTP responses                                                          *)
(***************************************************************************)
Undefined == "undefined"

StatusCodes == {200, 400, 403, 404, 429, 500, 502, 504}

\* Response.ok
Ok(status) == status >= 200 /\ status <= 299

FineKeys ==
    {"hate", "hate/threatening", "harassment", "harassment/threatening",
     "self-harm", "self-harm/intent", "self-harm/instructions",
     "sexual", "sexual/minors", "violence", "violence/graphic",
     "illicit", "illicit/violent"}

EmptyMap == [k \in {} |-> 0]

\* the score mappings the server answers with
ScoreMaps ==
    {EmptyMap,
     ("hate" :> 420 @@ "hate/threatening" :> 100 @@ "illicit" :> 705 @@ "spam" :> 1000)}

\* field "scores" of a body: t is its JavaScript type, m the mapping
NoScores == [t |-> Undefined, m |-> EmptyMap]
ScoresOf(m) == [t |-> "object", m |-> m]

\* a response body: json is FALSE when response.json() rejects (no body, or
\* a body that is not JSON); isNull when the body is the JSON value null
Body(json, isNull, message, flagged, scores) ==
    [json |-> json, isNull |-> isNull, message |-> message,
     flagged |-> flagged, scores |-> scores]

BodyNotJson == Body(FALSE, FALSE, Undefined, Undefined, NoScores)
BodyNull == Body(TRUE, TRUE, Undefined, Undefined, NoScores)
BodyMessage == Body(TRUE, FALSE, "message of the server", Undefined, NoScores)

\* flagged: a boolean, absent, or of another type
FlaggedValues == {Undefined, "true", "false", "string"}

\* the bodies the server answers with: no JSON, null, an object with a
\* message, and objects with or without flagged and scores
Bodies ==
    {BodyNotJson, BodyNull, BodyMessage}
    \cup {Body(TRUE, FALSE, Undefined, f, NoScores) : f \in {Undefined, "true"}}
    \cup {Body(TRUE, FALSE, Undefined, f, ScoresOf(m)) :
            f \in FlaggedValues, m \in ScoreMaps \ {EmptyMap}}
    \cup {Body(TRUE, FALSE, Undefined, "false", ScoresOf(EmptyMap))}

(***************************************************************************)
(* API.analyzeText                                                         *)
(***************************************************************************)
\* Precheck with the connectivity checked before the length
PrecheckConnectivityFirst(text, onLine) ==
    LET trimmed == Trim(text) IN
    IF trimmed = <<>> THEN ErrEmptyInput
    ELSE IF ~onLine THEN ErrNoConnectivity
    ELSE IF Len(trimmed) > MAX_CHARACTERS THEN ErrInputTooLong
    ELSE NoError

\* lines 326-335: the error thrown before any request, or NoError
Precheck(text, onLine) ==
    LET trimmed == Trim(text) IN
    IF trimmed = <<>> THEN ErrEmptyInput
    ELSE IF Len(trimmed) > MAX_CHARACTERS THEN ErrInputTooLong
    ELSE IF ~onLine THEN ErrNoConnectivity
    ELSE NoError

\* lines 319-321 and 342-347: the fetch call
MODERATE_ENDPOINT == "https://hate-speach-backend.onrender.com/moderate"

\* Request with the text as typed
RequestUntrimmed(text) ==
    [method |-> "POST", url |-> MODERATE_ENDPOINT, text |-> text]

Request(text) ==
    [method |-> "POST", url |-> MODERATE_ENDPOINT, text |-> Trim(text)]

\* TransportError with every rejection reported as a network error
TransportErrorNoAbort(name) == ErrNetworkError

\* lines 348-352: the error thrown when fetch rejects with an error of this
\* name
TransportError(name) ==
    IF name = "AbortError" THEN ErrRequestTimeout ELSE ErrNetworkError

\* BadRequestMessage without the message of the body
BadRequestMessageFixed(msg) == "Invalid request. Try analyzing different text."

\* line 362: the message of a 400, msg being the message of the body
BadRequestMessage(msg) ==
    IF msg # Undefined THEN msg
    ELSE "Invalid request. Try analyzing different text."

\* lines 357-371: the error thrown for a response that is not ok
HttpError(status, body) ==
    LET default == Err("UnknownHttpError", "Error",
                       "Server error (" \o ToString(status) \o ")")
        msg == IF body.isNull THEN Undefined ELSE body.message
    IN
    IF ~body.json THEN default
    ELSE IF status = 400 THEN
        Err("BadRequest", "Error", BadRequestMessage(msg))
    ELSE IF status = 403 THEN
        Err("Forbidden", "Error", "Access denied by server (CORS). Contact support.")
    ELSE IF status = 429 THEN
        Err("RateLimited", "Error",
            "Too many requests. Please wait a moment and try again.")
    ELSE IF status = 502 THEN
        Err("UpstreamUnreachable", "Error",
            "Could not reach OpenAI. Please try again shortly.")
    ELSE IF status = 504 THEN
        Err("UpstreamTimeout", "Error",
            "Request timed out reaching OpenAI. Please try again.")
    ELSE IF status = 500 THEN
        Err("ServerError", "Error", "Internal server error. Please try again shortly.")
    ELSE IF msg # Undefined THEN Err("UnknownHttpError", "Error", msg)
    ELSE default

\* lines 373-379: the error thrown for an ok response, or NoError when the
\* body is returned
PayloadError(body) ==
    IF ~body.json THEN ErrSyntax
    ELSE IF body.isNull THEN ErrType
    ELSE IF body.flagged = Undefined \/ body.scores.t = Undefined
         THEN ErrMalformedResponse
    ELSE NoError

(***************************************************************************)
(* API.parseResponse                                                       *)
(***************************************************************************)
\* Max with the least element
Least(S) == CHOOSE x \in S : \A y \in S : x <= y

Max(S) == CHOOSE x \in S : \A y \in S : y <= x

\* cs[k] ?? 0
ScoreAt(cs, k) == IF k \in DOMAIN cs THEN cs[k] ELSE 0

\* maxOf with the least of the scores
minOf(cs, keys) == CHOOSE x \in {ScoreAt(cs, k) : k \in keys} :
                        \A k \in keys : x <= ScoreAt(cs, k)

maxOf(cs, keys) == Max({ScoreAt(cs, k) : k \in keys})

\* pct with val * 1000
pctPerMille(val) == val

\* Math.round(val * 100), val in thousandths
pct(val) == (val + 5) \div 10

DisplayKeys == {"hate", "harassment", "selfHarm", "sexual", "violence", "illicit"}

\* parseResponse with the overall score raised by the flag
parseResponseFlagged(data, inputText) ==
    LET cs == data.scores.m
        scores ==
            [hate       |-> pct(maxOf(cs, {"hate", "hate/threatening"})),
             harassment |-> pct(maxOf(cs, {"harassment", "harassment/threatening"})),
             selfHarm   |-> pct(maxOf(cs, {"self-harm", "self-harm/intent",
                                           "self-harm/instructions"})),
             sexual     |-> pct(maxOf(cs, {"sexual", "sexual/minors"})),
             violence   |-> pct(maxOf(cs, {"violence", "violence/graphic"})),
             illicit    |-> pct(maxOf(cs, {"illicit", "illicit/violent"}))]
    IN [isNull |-> FALSE,
        text |-> inputText,
        scores |-> scores,
        overallScore |-> IF data.flagged = "true" THEN 100
                         ELSE Max({scores[k] : k \in DisplayKeys}),
        flaggedByApi |-> data.flagged]

\* lines 388-413
parseResponse(data, inputText) ==
    LET cs == data.scores.m
        scores ==
            [hate       |-> pct(maxOf(cs, {"hate", "hate/threatening"})),
             harassment |-> pct(maxOf(cs, {"harassment", "harassment/threatening"})),
             selfHarm   |-> pct(maxOf(cs, {"self-harm", "self-harm/intent",
                                           "self-harm/instructions"})),
             sexual     |-> pct(maxOf(cs, {"sexual", "sexual/minors"})),
             violence   |-> pct(maxOf(cs, {"violence", "violence/graphic"})),
             illicit    |-> pct(maxOf(cs, {"illicit", "illicit/violent"}))]
    IN [isNull |-> FALSE,
        text |-> inputText,
        scores |-> scores,
        overallScore |-> Max({scores[k] : k \in DisplayKeys}),
        flaggedByApi |-> data.flagged]

\* State.lastResults = null
NullResults ==
    [isNull |-> TRUE, text |-> <<>>, scores |-> [k \in DisplayKeys |-> 0],
     overallScore |-> 0, flaggedByApi |-> Undefined]

(***************************************************************************)
(* Render                                                                  *)
(***************************************************************************)
\* lines 431-435
colorClass(score) ==
    IF score < 30 THEN "safe" ELSE IF score <= 70 THEN "warn" ELSE "danger"

\* getVerdict with 70 in the last tier
getVerdictExclusive(score) ==
    IF score < 30 THEN [level |-> "safe", badgeText |-> "LOW RISK"]
    ELSE IF score < 70 THEN [level |-> "warn", badgeText |-> "MODERATE RISK"]
    ELSE [level |-> "hate", badgeText |-> "HIGH RISK"]

\* lines 437-459: level and badgeText of the verdict
getVerdict(score) ==
    IF score < 30 THEN [level |-> "safe", badgeText |-> "LOW RISK"]
    ELSE IF score <= 70 THEN [level |-> "warn", badgeText |-> "MODERATE RISK"]
    ELSE [level |-> "hate", badgeText |-> "HIGH RISK"]

\* no verdict is rendered
NoVerdict == [level |-> "none", badgeText |-> ""]

(***************************************************************************)
(* State                                                                   *)
(***************************************************************************)
VARIABLES
    isAnalyzing,         \* State.isAnalyzing
    lastResults,         \* State.lastResults
    isOnline,            \* State.isOnline
    isServerOnline,      \* State.isServerOnline: "null", "true" or "false"
    navOnLine,           \* navigator.onLine
    textInput,           \* DOM.textInput.value
    hidden,              \* hidden of resultsSection, skeletonLoader, resultsContent
    statusUI,            \* state class of DOM.serverStatus
    pollTimer,           \* delay of the timer pollTimer refers to, 0 when that
                         \*   timer has fired or none was armed
    pollTimers,          \* timers armed by scheduleNext that are pending
    wakingToastShown,    \* ServerStatus.wakingToastShown
    checks,              \* health requests in flight, by their showToasts
    sinceOk,             \* history of the health checks since the last one that
                         \*   succeeded, or since the startup
    pc,                  \* where the handleAnalyze call is suspended
    text,                \* text of the pending handleAnalyze call
    timeoutArmed,        \* timeoutId of analyzeText is pending
    coldStartToastTimer, \* coldStartToastTimer of handleAnalyze is pending
    inFlight,            \* analyze requests issued and not yet settled
    reqCount,            \* analyze requests issued so far
    trigCount,           \* handleAnalyze calls that reached setLoadingState
    lastAction,          \* the last step taken, and in that step:
    wasServerOnline,     \*   State.isServerOnline before the step
    toasts,              \*   the calls of Toast.show
    requests,            \*   the calls of fetch for the moderation endpoint
    rawData,             \*   the payload parseResponse was called with
    verdict,             \*   the verdict renderResults displayed
    err                  \*   the error caught by handleAnalyze

stateVars == <<isAnalyzing, lastResults, isOnline, isServerOnline>>
domVars == <<navOnLine, textInput, hidden, statusUI>>
healthVars == <<pollTimer, pollTimers, wakingToastShown, checks, sinceOk>>
callVars == <<pc, text, timeoutArmed, coldStartToastTimer, inFlight>>
countVars == <<reqCount, trigCount>>
stepVars == <<lastAction, wasServerOnline, toasts, requests, rawData, verdict,
              err>>

vars == <<stateVars, domVars, healthVars, callVars, countVars, stepVars>>

\* rawData of a step that does not call parseResponse
NoData == BodyNull

\* what the step did, parseResponse being called with data and renderResults
\* (lines 482-484) with its result
DoesParse(action, shown, sent, caught, data) ==
    /\ lastAction' = action
    /\ wasServerOnline' = isServerOnline
    /\ toasts' = shown
    /\ requests' = sent
    /\ rawData' = data
    /\ verdict' = IF data = NoData THEN NoVerdict
                  ELSE getVerdict(lastResults'.overallScore)
    /\ err' = caught

\* what the step did, without a call of parseResponse
Does(action, shown, sent, caught) ==
    DoesParse(action, shown, sent, caught, NoData)

\* a promise reaction of the handleAnalyze call is queued: it runs before
\* any other event or timer
MicrotaskPending == pc = "rejected"

Init ==
    /\ isAnalyzing = FALSE
    /\ lastResults = NullResults
    /\ navOnLine \in BOOLEAN
    /\ isOnline = navOnLine
    /\ isServerOnline = "null"
    /\ textInput = <<>>
    /\ hidden = [results |-> TRUE, skeleton |-> TRUE, content |-> TRUE]
    /\ statusUI = "checking"
    /\ pollTimer = 0
    /\ pollTimers = 0
    /\ wakingToastShown = FALSE
    /\ checks = [showToasts \in BOOLEAN |-> IF showToasts THEN 0 ELSE 1]
    /\ sinceOk = [afterOk |-> FALSE, failed |-> FALSE, timedOut |-> FALSE]
    /\ pc = "idle"
    /\ text = <<>>
    /\ timeoutArmed = FALSE
    /\ coldStartToastTimer = FALSE
    /\ inFlight = 0
    /\ reqCount = 0
    /\ trigCount = 0
    /\ lastAction = "bootstrap"
    /\ wasServerOnline = "null"
    /\ toasts = IF navOnLine THEN <<>> ELSE <<ToastOffline>>
    /\ requests = <<>>
    /\ rawData = NoData
    /\ verdict = NoVerdict
    /\ err = NoError

(***************************************************************************)
(* The user and the browser                                                *)
(***************************************************************************)
\* the user edits the text
InputText(t) ==
    /\ ~MicrotaskPending
    /\ t # textInput
    /\ textInput' = t
    /\ Does("InputText", <<>>, <<>>, NoError)
    /\ UNCHANGED <<stateVars, navOnLine, hidden, statusUI, healthVars, callVars,
                   countVars>>

\* handleClear with the last result cleared as well
handleClearAll ==
    /\ ~MicrotaskPending
    /\ textInput' = <<>>
    /\ lastResults' = NullResults
    /\ Does("handleClear", <<>>, <<>>, NoError)
    /\ UNCHANGED <<isAnalyzing, isOnline, isServerOnline, navOnLine, hidden,
                   statusUI, healthVars, callVars, countVars>>

\* lines 695-699
handleClear ==
    /\ ~MicrotaskPending
    /\ textInput' = <<>>
    /\ Does("handleClear", <<>>, <<>>, NoError)
    /\ UNCHANGED <<stateVars, navOnLine, hidden, statusUI, healthVars, callVars,
                   countVars>>

\* the online and offline events of window
updateBanner ==
    /\ ~MicrotaskPending
    /\ navOnLine' = ~navOnLine
    /\ isOnline' = navOnLine'
    /\ Does("updateBanner",
            IF navOnLine' THEN <<ToastRestored>> ELSE <<ToastOffline>>,
            <<>>, NoError)
    /\ UNCHANGED <<isAnalyzing, lastResults, isServerOnline, textInput, hidden,
                   statusUI, healthVars, callVars, countVars>>

\* handleNewAnalysis with the results left on display
handleNewAnalysisKeepsContent ==
    /\ ~MicrotaskPending
    /\ lastResults' = NullResults
    /\ Does("handleNewAnalysis", <<>>, <<>>, NoError)
    /\ UNCHANGED <<isAnalyzing, isOnline, isServerOnline, navOnLine, textInput,
                   hidden, statusUI, healthVars, callVars, countVars>>

\* lines 685-693
handleNewAnalysis ==
    /\ ~MicrotaskPending
    /\ hidden' = [results |-> TRUE, skeleton |-> TRUE, content |-> TRUE]
    /\ lastResults' = NullResults
    /\ Does("handleNewAnalysis", <<>>, <<>>, NoError)
    /\ UNCHANGED <<isAnalyzing, isOnline, isServerOnline, navOnLine, textInput,
                   statusUI, healthVars, callVars, countVars>>

(***************************************************************************)
(* Actions.handleAnalyze                                                   *)
(***************************************************************************)
\* AlreadyAnalyzing without the flag
NeverAnalyzing == FALSE

\* line 575
AlreadyAnalyzing == isAnalyzing

\* WarnsColdStart without the unknown state
WarnsColdStartOffline == isServerOnline = "false"

\* line 589: the server is not known to be online
WarnsColdStart == isServerOnline \in {"false", "null"}

\* lines 574-604: a click on the analyze button or Ctrl/Cmd+Enter, up to the
\* await of API.analyzeText
handleAnalyze ==
    /\ ~MicrotaskPending
    /\ IF AlreadyAnalyzing THEN
           /\ Does("handleAnalyze: ignored", <<>>, <<>>, NoError)
           /\ UNCHANGED <<stateVars, domVars, healthVars, callVars, countVars>>
       ELSE IF Trim(textInput) = <<>> THEN
           /\ Does("handleAnalyze: empty", <<ToastEnterText>>, <<>>, NoError)
           /\ UNCHANGED <<stateVars, domVars, healthVars, callVars, countVars>>
       ELSE
           /\ trigCount < MaxTriggers
           /\ trigCount' = trigCount + 1
           /\ isAnalyzing' = TRUE
           /\ text' = textInput
           /\ coldStartToastTimer' = ~WarnsColdStart
           /\ hidden' = [results |-> FALSE, skeleton |-> FALSE, content |-> TRUE]
           /\ LET shown == IF WarnsColdStart THEN <<ToastColdStart>> ELSE <<>>
              IN
              IF Precheck(textInput, navOnLine) # NoError THEN
                  /\ pc' = "rejected"
                  /\ Does("handleAnalyze: rejected", shown, <<>>, NoError)
                  /\ UNCHANGED <<timeoutArmed, inFlight, reqCount>>
              ELSE
                  /\ pc' = "fetching"
                  /\ timeoutArmed' = TRUE
                  /\ inFlight' = inFlight + 1
                  /\ reqCount' = reqCount + 1
                  /\ Does("handleAnalyze: request", shown,
                          <<Request(textInput)>>, NoError)
           /\ UNCHANGED <<lastResults, isOnline, isServerOnline, navOnLine,
                          textInput, statusUI, healthVars>>

\* Fail with the server marked offline by the failure
FailMarksOffline(action, e) ==
    /\ coldStartToastTimer' = FALSE
    /\ hidden' = [hidden EXCEPT !.skeleton = TRUE, !.results = TRUE]
    /\ Does(action,
            <<Toast(IF e.message # "" THEN e.message
                    ELSE "An unexpected error occurred.", "error", 7000)>>,
            <<>>, e)
    /\ isAnalyzing' = FALSE
    /\ pc' = "idle"
    /\ text' = <<>>
    /\ timeoutArmed' = FALSE
    /\ isServerOnline' = "false"
    /\ UNCHANGED <<lastResults, isOnline, navOnLine, textInput, statusUI,
                   healthVars, countVars>>

\* ClearTimerOnFailure without clearTimeout
KeepTimerOnFailure == UNCHANGED coldStartToastTimer

\* line 620
ClearTimerOnFailure == coldStartToastTimer' = FALSE

\* lines 619-627: the catch and finally blocks, for the error e
Fail(action, e) ==
    /\ ClearTimerOnFailure
    /\ hidden' = [hidden EXCEPT !.skeleton = TRUE, !.results = TRUE]
    /\ Does(action,
            <<Toast(IF e.message # "" THEN e.message
                    ELSE "An unexpected error occurred.", "error", 7000)>>,
            <<>>, e)
    /\ isAnalyzing' = FALSE
    /\ pc' = "idle"
    /\ text' = <<>>
    /\ timeoutArmed' = FALSE
    /\ UNCHANGED <<lastResults, isOnline, isServerOnline, navOnLine, textInput,
                   statusUI, healthVars, countVars>>

\* lines 604-617 and 626: the rest of the try block and the finally block,
\* for the payload data
Succeed(action, data) ==
    /\ coldStartToastTimer' = FALSE
    /\ hidden' = [hidden EXCEPT !.skeleton = TRUE, !.content = FALSE]
    /\ lastResults' = parseResponse(data, text)
    /\ DoesParse(action, <<>>, <<>>, NoError, data)
    /\ isAnalyzing' = FALSE
    /\ pc' = "idle"
    /\ text' = <<>>
    /\ timeoutArmed' = FALSE
    /\ UNCHANGED <<isOnline, isServerOnline, navOnLine, textInput, statusUI,
                   healthVars, countVars>>

\* analyzeText threw before its first await: the catch block of handleAnalyze
\* runs as a promise reaction
rejected ==
    /\ pc = "rejected"
    /\ Fail("rejected", Precheck(text, navOnLine))
    /\ UNCHANGED inFlight

\* lines 342-357, fetch resolves: the response headers have arrived, with
\* response.ok equal to ok.  The status itself is read after json() has
\* settled (lines 362-368) and is chosen there.
fetchResolves(ok) ==
    /\ pc = "fetching"
    /\ timeoutArmed' = FALSE
    /\ pc' = IF ok THEN "json" ELSE "errorJson"
    /\ Does("fetchResolves", <<>>, <<>>, NoError)
    /\ UNCHANGED <<stateVars, domVars, healthVars, text, coldStartToastTimer,
                   inFlight, countVars>>

\* fetchFails with the request issued again
fetchFailsRetries ==
    /\ pc = "fetching"
    /\ reqCount' = reqCount + 1
    /\ Does("fetchFails", <<>>, <<Request(text)>>, NoError)
    /\ UNCHANGED <<stateVars, domVars, healthVars, callVars, trigCount>>

\* lines 348-352, fetch rejects for a reason other than the abort
fetchFails ==
    /\ pc = "fetching"
    /\ Fail("fetchFails", TransportError("TypeError"))
    /\ inFlight' = inFlight - 1

\* line 338, the timeout fires: the request is aborted and fetch rejects with
\* an AbortError.  The timer of coldStartToastTimer was armed in the same
\* task, so the shorter of the two delays fires first.
requestTimeout ==
    /\ ~MicrotaskPending
    /\ timeoutArmed
    /\ coldStartToastTimer => TIMEOUT_MS < SLOW_RESPONSE_MS
    /\ Fail("requestTimeout", TransportError("AbortError"))
    /\ inFlight' = inFlight - 1

\* lines 357-380, response.json() settles for the body that arrived, of a
\* response of status st
jsonSettles(st, body) ==
    /\ pc \in {"json", "errorJson"}
    /\ Ok(st) <=> pc = "json"
    /\ inFlight' = inFlight - 1
    /\ IF pc = "errorJson" THEN Fail("jsonSettles", HttpError(st, body))
       ELSE IF PayloadError(body) # NoError
            THEN Fail("jsonSettles", PayloadError(body))
       ELSE Succeed("jsonSettles", body)

\* lines 593-595, the callback of coldStartToastTimer
coldStartToast ==
    /\ ~MicrotaskPending
    /\ coldStartToastTimer
    /\ coldStartToastTimer' = FALSE
    /\ Does("coldStartToast", <<ToastSlow>>, <<>>, NoError)
    /\ UNCHANGED <<stateVars, domVars, healthVars, pc, text, timeoutArmed,
                   inFlight, countVars>>

(***************************************************************************)
(* ServerStatus                                                            *)
(***************************************************************************)
\* TimersAfterArming without clearTimeout
TimersAfterArmingNoClear(pending, armed) == pending + 1

\* lines 297-298: the timers pending after clearTimeout(pollTimer) and
\* setTimeout, for the timers pending before and the delay of the timer
\* pollTimer refers to (0 when it is not pending)
TimersAfterArming(pending, armed) ==
    pending - (IF armed # 0 THEN 1 ELSE 0) + 1

\* lines 296-299
scheduleNext(ms) ==
    /\ pollTimers' = TimersAfterArming(pollTimers, pollTimer)
    /\ pollTimer' = ms

\* ShowsDownToast at every failure
ShowsDownToastRepeated(showToasts) == showToasts

\* ShowsDownToast at no failure
ShowsDownToastNever(showToasts) == FALSE

\* lines 286 and 290: showToasts && wasOnline
ShowsDownToast(showToasts) == showToasts /\ isServerOnline = "true"

\* handleDown without scheduleNext
handleDownStops(action, showToasts) ==
    /\ isServerOnline' = "false"
    /\ statusUI' = "offline"
    /\ Does(action,
            IF ShowsDownToast(showToasts) THEN <<ToastServerDown>> ELSE <<>>,
            <<>>, NoError)
    /\ sinceOk' = [sinceOk EXCEPT !.failed = TRUE]
    /\ UNCHANGED <<pollTimer, pollTimers, wakingToastShown>>

\* lines 285-294
handleDown(action, showToasts) ==
    /\ isServerOnline' = "false"
    /\ statusUI' = "offline"
    /\ Does(action,
            IF ShowsDownToast(showToasts) THEN <<ToastServerDown>> ELSE <<>>,
            <<>>, NoError)
    /\ sinceOk' = [sinceOk EXCEPT !.failed = TRUE]
    /\ scheduleNext(POLL_INTERVAL_OFFLINE)
    /\ UNCHANGED wakingToastShown

\* check with the timer left pending
checkKeepsTimer ==
    /\ ~MicrotaskPending
    /\ pollTimers > 0
    /\ statusUI' = "checking"
    /\ checks' = [checks EXCEPT ![TRUE] = @ + 1]
    /\ Does("check", <<>>, <<>>, NoError)
    /\ UNCHANGED <<stateVars, navOnLine, textInput, hidden, pollTimer, pollTimers,
                   wakingToastShown, sinceOk, callVars, countVars>>

\* lines 238-249 run by the callback of pollTimer: check(true) up to its await
check ==
    /\ ~MicrotaskPending
    /\ pollTimers > 0
    /\ pollTimers' = pollTimers - 1
    /\ pollTimer' = 0
    /\ statusUI' = "checking"
    /\ checks' = [checks EXCEPT ![TRUE] = @ + 1]
    /\ Does("check", <<>>, <<>>, NoError)
    /\ UNCHANGED <<stateVars, navOnLine, textInput, hidden, wakingToastShown,
                   sinceOk, callVars, countVars>>

\* ShowsOnlineToast without showToasts
ShowsOnlineToastUnprompted(showToasts) == isServerOnline \in {"false", "null"}

\* ShowsOnlineToast without wasOffline
ShowsOnlineToastAlways(showToasts) == showToasts

\* lines 253 and 258: showToasts && wasOffline && State.isServerOnline !== null,
\* the last read after the assignment of line 254
ShowsOnlineToast(showToasts) ==
    /\ showToasts
    /\ isServerOnline \in {"false", "null"}
    /\ isServerOnline' # "null"

\* lines 250-264, fetch of the health URL resolves with status st
checkResolves(showToasts, st) ==
    /\ ~MicrotaskPending
    /\ checks[showToasts] > 0
    /\ checks' = [checks EXCEPT ![showToasts] = @ - 1]
    /\ IF Ok(st) THEN
           /\ isServerOnline' = "true"
           /\ wakingToastShown' = FALSE
           /\ statusUI' = "online"
           /\ Does("checkResolves: ok",
                   IF ShowsOnlineToast(showToasts)
                   THEN <<ToastServerOnline>> ELSE <<>>,
                   <<>>, NoError)
           /\ sinceOk' = [afterOk |-> TRUE, failed |-> FALSE, timedOut |-> FALSE]
           /\ scheduleNext(POLL_INTERVAL_ONLINE)
       ELSE handleDown("checkResolves: down", showToasts)
    /\ UNCHANGED <<isAnalyzing, lastResults, isOnline, navOnLine, textInput, hidden,
                   callVars, countVars>>

\* lines 266-268 and 279-281, fetch of the health URL rejects for a reason
\* other than the abort
checkFails(showToasts) ==
    /\ ~MicrotaskPending
    /\ checks[showToasts] > 0
    /\ checks' = [checks EXCEPT ![showToasts] = @ - 1]
    /\ handleDown("checkFails", showToasts)
    /\ UNCHANGED <<isAnalyzing, lastResults, isOnline, navOnLine, textInput, hidden,
                   callVars, countVars>>

\* ShowsWakingToast at every timeout
ShowsWakingToastAlways == TRUE

\* line 274
ShowsWakingToast == ~wakingToastShown

\* line 271: the value of State.isServerOnline after a timeout, with a value
\* of its own
StateAfterTimeoutWaking == "waking"

\* line 271
StateAfterTimeout == "false"

\* lines 242 and 266-278, the timeout of the health check fires: the request
\* is aborted and fetch rejects with an AbortError
checkTimeout(showToasts) ==
    /\ ~MicrotaskPending
    /\ checks[showToasts] > 0
    /\ checks' = [checks EXCEPT ![showToasts] = @ - 1]
    /\ isServerOnline' = StateAfterTimeout
    /\ statusUI' = "waking"
    /\ wakingToastShown' = TRUE
    /\ Does("checkTimeout",
            IF ShowsWakingToast THEN <<ToastServerWaking>> ELSE <<>>,
            <<>>, NoError)
    /\ sinceOk' = [sinceOk EXCEPT !.failed = TRUE, !.timedOut = TRUE]
    /\ scheduleNext(POLL_INTERVAL_OFFLINE)
    /\ UNCHANGED <<isAnalyzing, lastResults, isOnline, navOnLine, textInput, hidden,
                   callVars, countVars>>

(***************************************************************************)
(* Specification                                                           *)
(***************************************************************************)
Next ==
    \/ \E t \in Texts : InputText(t)
    \/ handleClear
    \/ updateBanner
    \/ handleNewAnalysis
    \/ handleAnalyze
    \/ rejected
    \/ \E ok \in BOOLEAN : fetchResolves(ok)
    \/ fetchFails
    \/ requestTimeout
    \/ \E st \in StatusCodes, body \in Bodies : jsonSettles(st, body)
    \/ coldStartToast
    \/ check
    \/ \E showToasts \in BOOLEAN, st \in StatusCodes : checkResolves(showToasts, st)
    \/ \E showToasts \in BOOLEAN : checkFails(showToasts)
    \/ \E showToasts \in BOOLEAN : checkTimeout(showToasts)

Spec == Init /\ [][Next]_vars

\* the timers fire and the queued promise reactions run; nothing makes the
\* server answer
LiveSpec ==
    /\ Spec
    /\ WF_vars(rejected)
    /\ WF_vars(requestTimeout)
    /\ WF_vars(coldStartToast)
    /\ WF_vars(check)
    /\ \A showToasts \in BOOLEAN : WF_vars(checkTimeout(showToasts))

(***************************************************************************)
(* API.parseResponse on its own: the analysis of a valid text waits for    *)
(* the body of an ok response, and the body is drawn from ParseBodies      *)
(***************************************************************************)
\* scores around the halves of a percent, and the ends of the range
ScoreValues == {0, 4, 5, 14, 15, 285, 294, 295, 420, 500, 704, 705, 994, 995, 1000}

\* the mappings of some of the keys to the values
MapsOver(keys, values) == UNION {[D -> values] : D \in SUBSET keys}

\* the score mappings parseResponse is called with: one score of each value,
\* every choice of present and absent keys among the keys read for one
\* display score and a key that is not read, and every choice of the display
\* scores that are 100
ParseMaps ==
    ScoreMaps
    \cup MapsOver({"hate"}, ScoreValues)
    \cup MapsOver({"hate", "hate/threatening", "spam"}, {100, 705})
    \cup MapsOver({"harassment", "harassment/threatening", "spam"}, {100, 705})
    \cup MapsOver({"self-harm", "self-harm/intent", "self-harm/instructions",
                   "spam"}, {100, 705})
    \cup MapsOver({"sexual", "sexual/minors", "spam"}, {100, 705})
    \cup MapsOver({"violence", "violence/graphic", "spam"}, {100, 705})
    \cup MapsOver({"illicit", "illicit/violent", "spam"}, {100, 705})
    \cup MapsOver({"hate", "harassment/threatening", "self-harm/intent",
                   "sexual/minors", "violence", "illicit/violent"}, {1000})

\* the payloads that pass lines 373-377
ParseBodies ==
    {Body(TRUE, FALSE, Undefined, f, ScoresOf(m)) :
        f \in {"true", "false"}, m \in ParseMaps}

\* the state after the startup, a health check that succeeded, the text typed,
\* the trigger and the headers of an ok response
ParseInit ==
    /\ isAnalyzing = TRUE
    /\ lastResults = NullResults
    /\ navOnLine = TRUE
    /\ isOnline = TRUE
    /\ isServerOnline = "true"
    /\ textInput \in {t \in Texts : Precheck(t, TRUE) = NoError}
    /\ hidden = [results |-> FALSE, skeleton |-> FALSE, content |-> TRUE]
    /\ statusUI = "online"
    /\ pollTimer = POLL_INTERVAL_ONLINE
    /\ pollTimers = 1
    /\ wakingToastShown = FALSE
    /\ checks = [showToasts \in BOOLEAN |-> 0]
    /\ sinceOk = [afterOk |-> TRUE, failed |-> FALSE, timedOut |-> FALSE]
    /\ pc = "json"
    /\ text = textInput
    /\ timeoutArmed = FALSE
    /\ coldStartToastTimer = TRUE
    /\ inFlight = 1
    /\ reqCount = 1
    /\ trigCount = 1
    /\ lastAction = "fetchResolves"
    /\ wasServerOnline = "true"
    /\ toasts = <<>>
    /\ requests = <<>>
    /\ rawData = NoData
    /\ verdict = NoVerdict
    /\ err = NoError

ParseNext == \E st \in {s \in StatusCodes : Ok(s)}, body \in ParseBodies :
                jsonSettles(st, body)

ParseSpec == ParseInit /\ [][ParseNext]_vars

(***************************************************************************)
(* Properties                                                              *)
(***************************************************************************)
programVars == <<stateVars, domVars, healthVars, callVars, countVars>>

FirstFailingCheck(t, onLine) ==
    IF Len(Trim(t)) = 0 THEN "EmptyInput"
    ELSE IF Len(Trim(t)) > MAX_CHARACTERS THEN "InputTooLong"
    ELSE IF ~onLine THEN "NoConnectivity"
    ELSE "none"

\* C2: analyzeText reports the first failing check in the order empty, too
\* long, no connectivity, and a trigger whose text fails a check issues no
\* request.
PreconditionOrder ==
    /\ [](\A t \in Texts, onLine \in BOOLEAN :
            Precheck(t, onLine).kind = FirstFailingCheck(t, onLine))
    /\ [](pc = "rejected" =>
            /\ FirstFailingCheck(text, navOnLine) # "none"
            /\ requests = <<>>
            /\ inFlight = 0)
    /\ [][pc = "rejected" =>
            /\ err'.kind = FirstFailingCheck(text, navOnLine)
            /\ requests' = <<>>
            /\ reqCount' = reqCount]_vars
    /\ [][(~isAnalyzing /\ handleAnalyze
           /\ FirstFailingCheck(textInput, navOnLine) # "none") =>
            /\ requests' = <<>>
            /\ reqCount' = reqCount
            /\ inFlight' = inFlight]_vars

TooLongWhileOffline ==
    /\ lastAction = "rejected"
    /\ err.kind = "InputTooLong"
    /\ ~navOnLine
    /\ reqCount = 0

ValidText(t) == Len(Trim(t)) > 0 /\ Len(Trim(t)) <= MAX_CHARACTERS

TrimmedPost(t) ==
    <<[method |-> "POST", url |-> MODERATE_ENDPOINT, text |-> Trim(t)]>>

\* C3 as stated: every call of analyze for a valid text issues exactly one
\* POST to the moderation endpoint with the trimmed text.
ValidTextIssuesOneRequest ==
    [][(~isAnalyzing /\ handleAnalyze /\ ValidText(textInput)) =>
        /\ requests' = TrimmedPost(textInput)
        /\ reqCount' = reqCount + 1]_vars

\* C3 amended: every call of analyze for a valid text, made while the
\* connectivity flag is online, issues exactly one POST to the moderation
\* endpoint with the trimmed text.
ValidTextOnlineIssuesOneRequest ==
    [][(~isAnalyzing /\ handleAnalyze /\ ValidText(textInput) /\ navOnLine) =>
        /\ requests' = TrimmedPost(textInput)
        /\ reqCount' = reqCount + 1]_vars

PaddedTextRequested ==
    /\ lastAction = "handleAnalyze: request"
    /\ text # Trim(text)
    /\ requests = TrimmedPost(text)

\* the error kind of a status, as the claim gives it
KindOfStatus(st) ==
    CASE st = 400 -> "BadRequest"
      [] st = 403 -> "Forbidden"
      [] st = 429 -> "RateLimited"
      [] st = 500 -> "ServerError"
      [] st = 502 -> "UpstreamUnreachable"
      [] st = 504 -> "UpstreamTimeout"
      [] OTHER -> "UnknownHttpError"

\* C4: for a response that is not ok, the error kind is that of the status,
\* whatever the body.
KindFromStatusAlone ==
    [][pc = "errorJson" =>
        \A st \in StatusCodes, body \in Bodies :
            jsonSettles(st, body) => err'.kind = KindOfStatus(st)]_vars

HasMessage(body) == body.json /\ ~body.isNull /\ body.message # Undefined

\* C5 as stated: for a response that is not ok and whose body has a message,
\* the message reported is the message of the body, for every status.
BodyMessageOverrides ==
    [][pc = "errorJson" =>
        \A st \in StatusCodes, body \in {b \in Bodies : HasMessage(b)} :
            jsonSettles(st, body) => err'.message = body.message]_vars

FixedMessageStatuses == {403, 429, 500, 502, 504}

\* C5 amended: for a response that is not ok and whose body has a message,
\* the message reported is the message of the body when the status is 400 or
\* is none of 403, 429, 500, 502, 504; for these five it is the fixed message
\* of the status.
BodyMessageOverridesUnlessFixed ==
    [][pc = "errorJson" =>
        \A st \in StatusCodes, body \in {b \in Bodies : HasMessage(b)} :
          jsonSettles(st, body) =>
            /\ err'.kind = KindOfStatus(st)
            /\ IF st \in FixedMessageStatuses
               THEN err'.message # body.message
               ELSE err'.message = body.message
            /\ toasts' = <<Toast(err'.message, "error", 7000)>>]_vars

BadRequestWithBodyMessage ==
    /\ lastAction = "jsonSettles"
    /\ err.kind = "BadRequest"
    /\ err.message = BodyMessage.message

\* the body has a boolean flag and a scores mapping
WellFormed(body) ==
    /\ body.json
    /\ ~body.isNull
    /\ body.flagged \in {"true", "false"}
    /\ body.scores.t = "object"

\* C6: for an ok response, analyze returns the payload when the body has a
\* boolean flag and a scores mapping, fails with MalformedResponse when it has
\* not, and never fails with an unclassified error.
PayloadOrMalformed ==
    [][pc = "json" =>
        \A st \in StatusCodes, body \in Bodies :
          jsonSettles(st, body) =>
            IF WellFormed(body)
            THEN err' = NoError /\ lastResults'.flaggedByApi = body.flagged
            ELSE err'.kind = "MalformedResponse"]_vars

\* C7: a request without response at the timeout is cancelled and fails with
\* RequestTimeout, any other transport failure fails with NetworkError; the
\* timeout is pending exactly while fetch is, so that a response that arrived
\* is never turned into RequestTimeout.
TimeoutIsDistinct ==
    /\ lastAction = "requestTimeout" => err.kind = "RequestTimeout" /\ inFlight = 0
    /\ lastAction = "fetchFails" => err.kind = "NetworkError"
    /\ err.kind = "RequestTimeout" => lastAction = "requestTimeout"
    /\ err.kind = "NetworkError" => lastAction = "fetchFails"
    /\ timeoutArmed <=> pc = "fetching"

TimedOut ==
    /\ lastAction = "requestTimeout"
    /\ err = ErrRequestTimeout
    /\ ~timeoutArmed
    /\ ~isAnalyzing

\* C8: every started analysis eventually finishes, and then the analyzing
\* flag is false and the next trigger is accepted.
AnalysisFinishes ==
    /\ isAnalyzing ~> ~isAnalyzing
    /\ [](pc = "idle" <=> ~isAnalyzing)

\* C9: the analyze path never retries: requests never outnumber the accepted
\* triggers, and every request is issued by a trigger that was accepted in the
\* same step.
NoRetry ==
    /\ [](reqCount <= trigCount)
    /\ [][(requests' # <<>> \/ reqCount' # reqCount) =>
            /\ ~isAnalyzing
            /\ handleAnalyze
            /\ trigCount' = trigCount + 1
            /\ reqCount' = reqCount + 1
            /\ Len(requests') = 1]_vars
    /\ [][(err'.kind # "none") => (requests' = <<>> /\ pc' = "idle")]_vars

FailedAndIdle ==
    /\ err.kind = "NetworkError"
    /\ reqCount = 1
    /\ trigCount = 1
    /\ pc = "idle"

\* C10: the health check of the startup (the only one with showToasts false)
\* shows no toast, whatever its outcome.
InitialCheckIsSilent ==
    [][(\/ \E st \in StatusCodes : checkResolves(FALSE, st)
        \/ checkFails(FALSE)
        \/ checkTimeout(FALSE)) => toasts' = <<>>]_vars

(***************************************************************************)
(* Properties of the health poller                                         *)
(***************************************************************************)
\* the steps in which a health check ends without a 2xx response
FailingChecks == {"checkResolves: down", "checkFails", "checkTimeout"}

\* the steps in which a health check ends with a non-2xx response or a
\* network error
DownChecks == {"checkResolves: down", "checkFails"}

\* C11: when the first health check succeeds while the state is unknown, the
\* state becomes online and no toast is shown; only the first health check
\* finds the state unknown.
FirstCheckOkIsSilent ==
    /\ [][(isServerOnline = "null" /\ lastAction' = "checkResolves: ok") =>
            /\ isServerOnline' = "true"
            /\ statusUI' = "online"
            /\ toasts' = <<>>]_vars
    /\ [](isServerOnline = "null" =>
            /\ checks[FALSE] = 1 /\ checks[TRUE] = 0 /\ pollTimer = 0
            /\ ~sinceOk.afterOk /\ ~sinceOk.failed)

FirstCheckOk ==
    /\ lastAction = "checkResolves: ok"
    /\ wasServerOnline = "null"
    /\ isServerOnline = "true"
    /\ ~sinceOk.failed
    /\ toasts = <<>>

\* C12 as stated: a health check that fails after one that succeeded shows
\* exactly one toast, and the failing checks that follow it, of any kind and
\* in any order, show no toast until a check succeeds.
FailureNotifiesOnce ==
    [][(lastAction' \in FailingChecks /\ sinceOk.afterOk) =>
        IF ~sinceOk.failed THEN Len(toasts') = 1 ELSE toasts' = <<>>]_vars

\* C12 amended: a health check that fails after one that succeeded shows
\* exactly one toast, and the failing checks that follow it show no toast
\* until a check succeeds, except the first of them that times out when no
\* check timed out before it: that one shows the starting up toast.
FailureNotifiesOncePerKind ==
    [][(lastAction' \in FailingChecks /\ sinceOk.afterOk) =>
        IF ~sinceOk.failed THEN Len(toasts') = 1
        ELSE IF lastAction' = "checkTimeout" /\ ~sinceOk.timedOut
             THEN toasts' = <<ToastServerWaking>>
        ELSE toasts' = <<>>]_vars

\* a timeout that follows a failure of another kind, after a success
WakingAfterDown ==
    /\ lastAction = "checkTimeout"
    /\ sinceOk.afterOk
    /\ wasServerOnline = "false"
    /\ toasts = <<ToastServerWaking>>

\* C13: a health check that ends with a non-2xx response or a network error
\* sets the state to offline, and shows the offline toast if and only if the
\* state just before was online.
DownNotifiesFromOnline ==
    [][lastAction' \in DownChecks =>
        /\ isServerOnline' = "false"
        /\ statusUI' = "offline"
        /\ toasts' = IF isServerOnline = "true" THEN <<ToastServerDown>>
                     ELSE <<>>]_vars

WentDown ==
    /\ lastAction \in DownChecks
    /\ wasServerOnline = "true"
    /\ isServerOnline = "false"
    /\ toasts = <<ToastServerDown>>

OkNotifiesUnlessOnline ==
    [][lastAction' = "checkResolves: ok" =>
        /\ isServerOnline' = "true"
        /\ toasts' = IF isServerOnline # "true" THEN <<ToastServerOnline>>
                     ELSE <<>>]_vars

\* C15 amended: every health check that receives a 2xx response sets the
\* state to online, and shows the online toast if and only if the state just
\* before was offline or waking (not online, and not unknown).
OkNotifiesFromOffline ==
    [][lastAction' = "checkResolves: ok" =>
        /\ isServerOnline' = "true"
        /\ statusUI' = "online"
        /\ toasts' = IF isServerOnline = "false" THEN <<ToastServerOnline>>
                     ELSE <<>>]_vars

CameBack ==
    /\ lastAction = "checkResolves: ok"
    /\ wasServerOnline = "false"
    /\ isServerOnline = "true"
    /\ toasts = <<ToastServerOnline>>

\* State.isServerOnline as line 58 reads it, and as the claim names it
Availability ==
    CASE isServerOnline = "null" -> "Unknown"
      [] isServerOnline = "true" -> "Online"
      [] isServerOnline = "false" -> "Offline"
      [] OTHER -> "Waking"

\* C16 as stated: the availability state has four values that a reader can
\* tell apart: unknown at the startup, and after each health check online for
\* a 2xx response, waking for a timeout and offline for any other failure.
FourAvailabilityStates ==
    /\ lastAction = "bootstrap" => Availability = "Unknown"
    /\ lastAction = "checkResolves: ok" => Availability = "Online"
    /\ lastAction = "checkTimeout" => Availability = "Waking"
    /\ lastAction \in DownChecks => Availability = "Offline"

\* C16 amended: the availability state has three values: unknown until the
\* first health check ends, and after each health check online for a 2xx
\* response and offline for a timeout as for any other failure; only the
\* status indicator tells the timeout (waking) from the other failures
\* (offline).
ThreeAvailabilityStates ==
    /\ isServerOnline \in {"null", "true", "false"}
    /\ Availability = "Unknown" <=> (~sinceOk.afterOk /\ ~sinceOk.failed)
    /\ lastAction = "checkResolves: ok" =>
            Availability = "Online" /\ statusUI = "online"
    /\ lastAction = "checkTimeout" =>
            Availability = "Offline" /\ statusUI = "waking"
    /\ lastAction \in DownChecks =>
            Availability = "Offline" /\ statusUI = "offline"

TimedOutReadsOffline ==
    /\ lastAction = "checkTimeout"
    /\ isServerOnline = "false"
    /\ statusUI = "waking"

\* C17: a trigger that is accepted for a valid text while the connectivity
\* flag is online issues the request in every availability state; the state
\* only chooses between the starting up toast shown at once (not online) and
\* the timer of the slow response toast (online).
AvailabilityNeverBlocks ==
    /\ [][(~isAnalyzing /\ handleAnalyze /\ ValidText(textInput) /\ navOnLine) =>
            /\ requests' = TrimmedPost(textInput)
            /\ pc' = "fetching"
            /\ IF isServerOnline = "true"
               THEN toasts' = <<>> /\ coldStartToastTimer'
               ELSE toasts' = <<ToastColdStart>> /\ ~coldStartToastTimer']_vars
    /\ [][(\E i \in DOMAIN toasts' : toasts'[i] = ToastSlow) =>
            coldStartToastTimer /\ lastAction' = "coldStartToast"]_vars

RequestedWhileWaking ==
    /\ lastAction = "handleAnalyze: request"
    /\ wasServerOnline = "false"
    /\ statusUI = "waking"
    /\ toasts = <<ToastColdStart>>
    /\ requests = TrimmedPost(text)

\* the steps of an analysis, and the steps of the health poller
AnalysisSteps ==
    {"handleAnalyze: ignored", "handleAnalyze: empty", "handleAnalyze: rejected",
     "handleAnalyze: request", "rejected", "fetchResolves", "fetchFails",
     "requestTimeout", "jsonSettles", "coldStartToast"}

HealthSteps == FailingChecks \cup {"check", "checkResolves: ok"}

\* C18: only the end of a health check writes the availability state, no step
\* of an analysis changes it or the rest of the poller's state; and no step of
\* the health poller changes the analyzing flag, the last result or the
\* pending analysis, nor makes it fail.
HealthAndAnalysisAreSeparate ==
    /\ [][isServerOnline' # isServerOnline =>
            lastAction' \in HealthSteps \ {"check"}]_vars
    /\ [][lastAction' \in AnalysisSteps =>
            UNCHANGED <<isServerOnline, statusUI, healthVars>>]_vars
    /\ [][lastAction' \in HealthSteps =>
            /\ UNCHANGED <<isAnalyzing, lastResults, hidden, callVars, countVars>>
            /\ err' = NoError
            /\ requests' = <<>>]_vars

CheckFailedDuringAnalysis ==
    /\ lastAction \in FailingChecks
    /\ wasServerOnline = "true"
    /\ isServerOnline = "false"
    /\ isAnalyzing
    /\ pc = "fetching"

(***************************************************************************)
(* Properties of API.parseResponse                                         *)
(***************************************************************************)
\* the fine-grained scores each display score is made of
Constituents ==
    [hate       |-> {"hate", "hate/threatening"},
     harassment |-> {"harassment", "harassment/threatening"},
     selfHarm   |-> {"self-harm", "self-harm/intent", "self-harm/instructions"},
     sexual     |-> {"sexual", "sexual/minors"},
     violence   |-> {"violence", "violence/graphic"},
     illicit    |-> {"illicit", "illicit/violent"}]

\* the greatest of the scores of the keys, an absent one counted as 0
GreatestOf(cs, keys) ==
    LET present == {cs[k] : k \in keys \cap DOMAIN cs}
        counted == IF keys \subseteq DOMAIN cs THEN present ELSE present \cup {0}
    IN CHOOSE x \in counted : \A y \in counted : y <= x

\* n is an integer nearest to val times 100, val in thousandths
NearestPercent(n, val) == 10 * n - val \in -5..5

\* the mapping without the keys that are not among the thirteen
FineOnly(cs) == [k \in DOMAIN cs \cap FineKeys |-> cs[k]]

\* a step has called parseResponse
Parsed == lastAction = "jsonSettles" /\ err = NoError

\* C19: each of the six display scores is the percentage, rounded to a nearest
\* integer, of the greatest of its fine-grained scores, an absent one counted
\* as 0; the keys that are not among the thirteen change nothing.
ScoresAreGreatestPercent ==
    Parsed =>
        LET cs == rawData.scores.m IN
        /\ \A c \in DisplayKeys :
              NearestPercent(lastResults.scores[c], GreatestOf(cs, Constituents[c]))
        /\ lastResults.scores =
              parseResponse([rawData EXCEPT !.scores.m = FineOnly(cs)], text).scores

PartialAndForeignKeys ==
    /\ Parsed
    /\ rawData.scores.m =
          ("hate" :> 420 @@ "hate/threatening" :> 100 @@ "illicit" :> 705
           @@ "spam" :> 1000)
    /\ lastResults.scores.hate = 42
    /\ lastResults.scores.illicit = 71
    /\ lastResults.scores.violence = 0

\* C20: a result of parseResponse has the six display scores, each an integer
\* from 0 to 100, for every mapping of scores from 0 to 1, the empty mapping
\* included.
ResultIsComplete ==
    Parsed =>
        /\ ~lastResults.isNull
        /\ DOMAIN lastResults.scores = DisplayKeys
        /\ \A c \in DisplayKeys : lastResults.scores[c] \in 0..100

EmptyScoresNormalized ==
    /\ Parsed
    /\ rawData.scores.m = EmptyMap
    /\ \A c \in DisplayKeys : lastResults.scores[c] = 0

\* C21: the overall score of a result is the greatest of its six display
\* scores: one of them, at least as large as each, and an integer from 0 to
\* 100.
OverallIsGreatestScore ==
    Parsed =>
        /\ lastResults.overallScore \in 0..100
        /\ \A c \in DisplayKeys : lastResults.overallScore >= lastResults.scores[c]
        /\ \E c \in DisplayKeys : lastResults.overallScore = lastResults.scores[c]

OverallAboveOthers ==
    /\ Parsed
    /\ lastResults.scores.hate = 42
    /\ lastResults.scores.illicit = 71
    /\ lastResults.overallScore = 71

\* C22: the flag of the payload does not drive the verdict: the payload with
\* the same scores and another flag gives the same display scores, the same
\* overall score and the same verdict, and the flag of a result is the flag of
\* its payload.
FlagDoesNotDriveVerdict ==
    Parsed =>
        /\ lastResults.flaggedByApi = rawData.flagged
        /\ \A f \in {"true", "false"} :
              LET twin == parseResponse([rawData EXCEPT !.flagged = f], text)
              IN /\ twin.flaggedByApi = f
                 /\ twin.scores = lastResults.scores
                 /\ twin.overallScore = lastResults.overallScore
                 /\ getVerdict(twin.overallScore) = verdict

FlaggedButSafe ==
    /\ Parsed
    /\ rawData.flagged = "true"
    /\ lastResults.flaggedByApi = "true"
    /\ lastResults.overallScore = 0
    /\ verdict.level = "safe"

\* the tier of a score, as the claim gives it
Tier(score) ==
    CASE score \in 0..29 -> "safe"
      [] score \in 30..70 -> "moderate"
      [] score \in 71..100 -> "high"

\* the tier a verdict is displayed as
TierOfVerdict(v) ==
    CASE v.badgeText = "LOW RISK" -> "safe"
      [] v.badgeText = "MODERATE RISK" -> "moderate"
      [] v.badgeText = "HIGH RISK" -> "high"
      [] OTHER -> "none"

\* the tier a category bar is coloured as
TierOfColor(color) ==
    CASE color = "safe" -> "safe"
      [] color = "warn" -> "moderate"
      [] color = "danger" -> "high"
      [] OTHER -> "none"

\* C23: the verdict is a function of the overall score alone: safe below 30,
\* moderate from 30 to 70, high above 70, for every score from 0 to 100; the
\* verdict displayed is the one of the overall score of the result.  The
\* colour of a category bar follows the same tiers.
VerdictTiers ==
    /\ \A score \in 0..100 :
          /\ TierOfVerdict(getVerdict(score)) = Tier(score)
          /\ TierOfColor(colorClass(score)) = Tier(score)
    /\ Parsed => TierOfVerdict(verdict) = Tier(lastResults.overallScore)

SeventyIsModerate ==
    /\ Parsed
    /\ lastResults.overallScore = 70
    /\ verdict.level = "warn"
    /\ verdict.badgeText = "MODERATE RISK"

EndedChecks == FailingChecks \cup {"checkResolves: ok"}

\* health requests in flight
ChecksInFlight == checks[TRUE] + checks[FALSE]

\* C25: every health check that ends arms one timer: of 30000 ms after a 2xx
\* response, of 10000 ms after a timeout or any other failure; and polling
\* never stops: at every moment either a check is in flight or a timer is
\* pending, and each of the two happens again and again.
PollingNeverStops ==
    /\ [][lastAction' \in EndedChecks =>
            /\ pollTimers' = pollTimers + 1
            /\ pollTimer' = IF lastAction' = "checkResolves: ok" THEN 30000
                            ELSE 10000]_vars
    /\ [](ChecksInFlight + pollTimers = 1)
    /\ []<>(ChecksInFlight = 1)
    /\ []<>(pollTimers = 1)

RearmedAfterFailure ==
    /\ lastAction \in FailingChecks
    /\ pollTimer = 10000
    /\ pollTimers = 1
    /\ ChecksInFlight = 0

\* C26: at most one timer of the health poller is pending, and arming a
\* timer cancels the one armed before it when that one is still pending.
OnePollTimer ==
    /\ pollTimers <= 1
    /\ pollTimers = (IF pollTimer # 0 THEN 1 ELSE 0)
    /\ \A pending \in 1..2, armed \in {POLL_INTERVAL_ONLINE, POLL_INTERVAL_OFFLINE} :
          TimersAfterArming(pending, armed) = pending
    /\ TimersAfterArming(0, 0) = 1

TimerPending ==
    /\ lastAction = "checkResolves: ok"
    /\ pollTimers = 1
    /\ pollTimer = POLL_INTERVAL_ONLINE

\* C27: health checks never overlap: at most one health request is in flight,
\* no timer is pending while one is, and a timer is armed only by the step
\* that ends the check.
ChecksNeverOverlap ==
    /\ [](ChecksInFlight <= 1)
    /\ [](ChecksInFlight > 0 => pollTimers = 0 /\ pollTimer = 0)
    /\ [][pollTimers' > pollTimers =>
            /\ lastAction' \in EndedChecks
            /\ ChecksInFlight = 1
            /\ ChecksInFlight' = 0]_vars
    /\ [][ChecksInFlight' > ChecksInFlight =>
            lastAction' = "check" /\ ChecksInFlight = 0]_vars

CheckInFlight ==
    /\ lastAction = "check"
    /\ checks[TRUE] = 1
    /\ checks[FALSE] = 0
    /\ pollTimers = 0

(***************************************************************************)
(* Properties of the display and of the toasts of handleAnalyze            *)
(***************************************************************************)
\* resultsContent is displayed: neither it nor resultsSection is hidden
ContentVisible == ~hidden.results /\ ~hidden.content

\* C28: while the results content is visible the last result is not null,
\* and it is the result of the last analysis that succeeded: the content
\* becomes visible only in the step that stores the result, and the result
\* does not change while the content stays visible.
VisibleContentHasResult ==
    /\ [](ContentVisible => ~lastResults.isNull)
    /\ [][ContentVisible' =>
            \/ ContentVisible /\ lastResults' = lastResults
            \/ /\ lastAction' = "jsonSettles"
               /\ err' = NoError
               /\ lastResults' = parseResponse(rawData', text)]_vars

ResultsShown ==
    /\ Parsed
    /\ ContentVisible
    /\ ~lastResults.isNull
    /\ ~isAnalyzing

\* C29: the slow response toast is shown only by the timer armed by a trigger
\* that was accepted while the state was online, which it uses up, and only
\* while that analysis is pending: the timer is never armed once the analysis
\* has finished.
SlowToastOncePerAnalysis ==
    /\ [][(\E i \in DOMAIN toasts' : toasts'[i] = ToastSlow) =>
            /\ lastAction' = "coldStartToast"
            /\ toasts' = <<ToastSlow>>
            /\ coldStartToastTimer /\ ~coldStartToastTimer'
            /\ isAnalyzing /\ pc \in {"fetching", "json", "errorJson"}]_vars
    /\ [][(coldStartToastTimer' /\ ~coldStartToastTimer) =>
            /\ lastAction' \in {"handleAnalyze: request", "handleAnalyze: rejected"}
            /\ isServerOnline = "true"
            /\ ~isAnalyzing]_vars
    /\ [](coldStartToastTimer => isAnalyzing)

SlowToastShown ==
    /\ lastAction = "coldStartToast"
    /\ toasts = <<ToastSlow>>
    /\ isAnalyzing
    /\ ~coldStartToastTimer

\* C30: a trigger shows the starting up toast only when it issues a request;
\* a trigger whose text fails a local check (empty, too long, no
\* connectivity) shows no such toast and does not set the analyzing flag.
WarningOnlyWithRequest ==
    /\ [][(\E i \in DOMAIN toasts' : toasts'[i] = ToastColdStart) =>
            requests' # <<>>]_vars
    /\ [][(~isAnalyzing /\ handleAnalyze
           /\ FirstFailingCheck(textInput, navOnLine) # "none") =>
            /\ ~isAnalyzing'
            /\ \A i \in DOMAIN toasts' : toasts'[i] # ToastColdStart]_vars

====
